---- MODULE Spec2Model ----
(***************************************************************************)
(* Model of app.py: a Flask gateway that fetches the last two daily bars   *)
(* of a ticker from the market-data provider (yfinance) and republishes    *)
(* them as a normalized quote.                                             *)
(*                                                                         *)
(* Numbers.  Closes are integers counted in ticks of 1e-4, so that         *)
(* round(x, 4) of a close is exact; change_percent is carried in units of  *)
(* 1e-4 percent.  A volume is the float sign * (kilo*1000 + unit + half/2),*)
(* kept as a record so that values of 1e9 and more stay inside 32-bit     *)
(* integers; every such value is exact in binary64.  NaN and infinite     *)
(* provider values, and the two timestamps of the body, are not modelled.  *)
(*                                                                         *)
(* State.  A request r is idle, blocked in the provider call ("history")   *)
(* or answered ("done").  The module-level requests.Session _YF_SESSION is *)
(* built at import and is neither handed to yfinance nor touched by a      *)
(* handler, so it is no part of the state.                                 *)
(***************************************************************************)
EXTENDS Integers, Sequences, FiniteSets, TLC

VARIABLES pc, symbol, queried, calls, answer, resp

vars == <<pc, symbol, queried, calls, answer, resp>>

\* ------------------------------------------------------------------ bounds

\* Number of requests that may be in flight together.
NumRequests == 3

\* Largest close price (in ticks) the provider returns.
MaxClose == 3

\* Number of daily bars asked of the provider: history(period='2d').
Period == 2

Requests == 1..NumRequests

Closes == 0..MaxClose

\* ----------------------------------------------------------------- symbols

\* A symbol is a sequence of characters.
Lower == {"a", "b"}

UpperChar(c) ==
    CASE c = "a" -> "A"
      [] c = "b" -> "B"
      [] OTHER -> c

\* str.upper(): maps every cased character, keeps the others.
upper(s) == [i \in 1..Len(s) |-> UpperChar(s[i])]

RECURSIVE Str(_)
\* The text of a symbol, as interpolated into messages and the JSON body.
Str(s) == IF s = <<>> THEN "" ELSE s[1] \o Str(Tail(s))

\* Path symbols tried by clients.
Symbols == {<<"a", "b">>, <<"A", "B">>, <<"A", "b", "1">>}

\* Path symbols of the concurrent requests.
ConcurrentSymbols == {<<"a">>, <<"A">>}

\* ----------------------------------------------------------------- volumes

Vol(s, k, u, h) == [sign |-> s, kilo |-> k, unit |-> u, half |-> h]

\* abs(volume) > 10^3 * kiloThreshold: the comparison with >= slipped to >.
AbsGT(v, kiloThreshold) ==
    \/ v.kilo > kiloThreshold
    \/ v.kilo = kiloThreshold /\ (v.unit > 0 \/ v.half > 0)

\* abs(volume) >= 10^3 * kiloThreshold
AbsGE(v, kiloThreshold) == v.kilo >= kiloThreshold

\* int(volume): truncation toward zero.
IntOf(v) ==
    [sign |-> IF v.kilo = 0 /\ v.unit = 0 THEN 1 ELSE v.sign,
     kilo |-> v.kilo, unit |-> v.unit, half |-> 0]

RECURSIVE Pow2Mod(_, _)
Pow2Mod(e, n) == IF e = 0 THEN 1 % n ELSE (2 * Pow2Mod(e - 1, n)) % n

RECURSIVE Log2Floor200(_, _)
\* Largest L >= l with 200 * 2^L <= m.
Log2Floor200(m, l) ==
    IF 200 * Pow2Mod(l + 1, 1000000000) <= m THEN Log2Floor200(m, l + 1) ELSE l

\* The float quotient volume / divisor, when it is the decimal tie m/200
\* (m odd, m >= 200): -1, 0 or 1 as the binary64 nearest to m/200 lies below,
\* on, or above m/200.  The 53-bit significand is floor or ceiling of
\* m * 2^e / 200 with e = 52 - floor(log2(m/200)); its residue decides.
FloatSide(m) ==
    LET e  == 52 - Log2Floor200(m, 0)
        R  == ((m % 400) * Pow2Mod(e, 400)) % 400
        rr == R % 200
    IN  IF rr = 0 THEN 0
        ELSE IF rr < 100 THEN -1
        ELSE IF rr > 100 THEN 1
        ELSE IF R \div 200 = 0 THEN -1 ELSE 1

\* |volume| / T as floor quotient and remainder (integer part of |volume|).
DivMod(v, T) ==
    IF T >= 1000
    THEN [q   |-> v.kilo \div (T \div 1000),
          rem |-> (v.kilo % (T \div 1000)) * 1000 + v.unit]
    ELSE [q   |-> (v.kilo * 1000 + v.unit) \div T,
          rem |-> (v.kilo * 1000 + v.unit) % T]

\* The quotient cut to two decimals instead of rounded.
HundredthsTruncated(v, T) == DivMod(v, T).q

\* Hundredths shown by f"{volume / d:.2f}" with d = 100 * T: the float
\* quotient rounded to two decimals, correctly rounded on its binary value.
Hundredths(v, T) ==
    LET dm   == DivMod(v, T)
        rem2 == 2 * dm.rem + v.half
        side == FloatSide(2 * dm.q + 1)
    IN  IF rem2 < T THEN dm.q
        ELSE IF rem2 > T THEN dm.q + 1
        ELSE IF side < 0 THEN dm.q
        ELSE IF side > 0 THEN dm.q + 1
        ELSE IF dm.q % 2 = 0 THEN dm.q ELSE dm.q + 1

\* "%.2f" of sign * h / 100.
Fixed2(sign, h) ==
    (IF sign < 0 THEN "-" ELSE "") \o ToString(h \div 100) \o "."
        \o (IF h % 100 < 10 THEN "0" ELSE "") \o ToString(h % 100)

\* f"{int(volume)}" for |volume| < 1000.
IntText(v) ==
    (IF v.sign < 0 /\ v.unit > 0 THEN "-" ELSE "") \o ToString(v.unit)

_format_volume(volume) ==
    IF AbsGE(volume, 1000000) THEN Fixed2(volume.sign, Hundredths(volume, 10000000)) \o "B"
    ELSE IF AbsGE(volume, 1000) THEN Fixed2(volume.sign, Hundredths(volume, 10000)) \o "M"
    ELSE IF AbsGE(volume, 1) THEN Fixed2(volume.sign, Hundredths(volume, 10)) \o "K"
    ELSE IntText(volume)

\* ------------------------------------------------------------------ prices

\* n / d rounded to the nearest integer, ties to even (d # 0).
RoundHalfEven(n, d) ==
    LET nn  == IF d < 0 THEN -n ELSE n
        dd  == IF d < 0 THEN -d ELSE d
        q   == nn \div dd
        rem == nn % dd
    IN  IF 2 * rem < dd THEN q
        ELSE IF 2 * rem > dd THEN q + 1
        ELSE IF q % 2 = 0 THEN q ELSE q + 1

\* round(x, 4) of a price of x ticks.
Round4(x) == RoundHalfEven(x, 1)

\* ---------------------------------------------------------------- provider

\* Exception classes the provider call can raise.  JSONDecodeError (a
\* malformed provider body) is a subclass of ValueError; the others are not.
ProviderExceptions == {"ConnectionError", "Timeout", "JSONDecodeError"}

Bars(C, V) == [close : C, volume : V]

\* The results history(period='2d') can return: zero to Period daily bars,
\* oldest first.  LV are the volumes of the most recent bar, PV of the others.
Hists(C, LV, PV) ==
    UNION {{h \in [1..n -> Bars(C, LV \cup PV)] :
               \A i \in 1..n : h[i].volume \in (IF i = n THEN LV ELSE PV)} :
           n \in 0..Period}

\* Volumes of the most recent bar: the thresholds, their neighbours, decimal
\* ties of the quotient, fractional and negative values.
Volumes ==
    {Vol(1, 0, 0, 0), Vol(1, 0, 500, 0), Vol(1, 0, 999, 0), Vol(1, 0, 999, 1),
     Vol(-1, 0, 999, 1), Vol(-1, 0, 0, 1), Vol(1, 1, 0, 0), Vol(1, 1, 5, 0),
     Vol(1, 1, 15, 0), Vol(1, 1, 125, 0), Vol(1, 1, 135, 0), Vol(1, 1, 500, 0),
     Vol(-1, 1, 500, 0), Vol(1, 999, 999, 0), Vol(1, 1000, 0, 0),
     Vol(1, 2500, 0, 0), Vol(1, 999999, 999, 0), Vol(1, 1000000, 0, 0),
     Vol(1, 1015000, 0, 0), Vol(1, 3000000, 0, 0), Vol(-1, 3000000, 0, 0)}

\* Volumes of the bar before the most recent one.
PrevVolumes == {Vol(1, 0, 777, 0), Vol(1, 2000, 0, 0)}

QuoteHists == Hists(Closes, Volumes, PrevVolumes)

SmallHists == Hists({0, 2}, {Vol(1, 1, 500, 0)}, {Vol(1, 0, 777, 0)})

\* ---------------------------------------------------------------- handlers

Raise(exc, msg) == [raised |-> TRUE, exc |-> exc, msg |-> msg]

Return(value) == [raised |-> FALSE, value |-> value]

\* isinstance(exc, ValueError) with the except ValueError clause left out.
IsValueErrorNever(exc) == FALSE

\* isinstance(exc, ValueError)
IsValueError(exc) == exc \in {"ValueError", "JSONDecodeError"}

\* hist.empty
empty(hist) == Len(hist) = 0

\* hist["Close"].iloc[0] taken for the latest close.
last_close_first(hist) == hist[1].close

\* hist["Close"].iloc[-1]
last_close(hist) == hist[Len(hist)].close

\* hist["Close"].iloc[-2] if len(hist["Close"]) > 1 else last_close
prev_close(hist) ==
    IF Len(hist) > 1 THEN hist[Len(hist) - 1].close ELSE last_close(hist)

\* hist["Volume"].iloc[-1]
volume(hist) == hist[Len(hist)].volume

\* The guard on the previous close left out.
zero_check_skipped(prev) == FALSE

\* prev_close == 0.0
zero_check(prev) == prev = 0

\* outcome is what ticker.history(period='2d') does for this call: it
\* returns bars or raises.
_fetch_quote(sym, outcome) ==
    IF outcome.kind = "raise" THEN Raise(outcome.exc, outcome.exc)
    ELSE LET hist == outcome.bars
         IN  IF empty(hist)
             THEN Raise("ValueError",
                        "No price data available for symbol '" \o Str(sym) \o "'.")
             ELSE IF zero_check(prev_close(hist))
             THEN Raise("ValueError",
                        "Previous close is zero for symbol '" \o Str(sym) \o "'.")
             ELSE Return([last_close |-> last_close(hist),
                          prev_close |-> prev_close(hist),
                          volume     |-> volume(hist)])

\* (last_price / prev_close) * 100: the subtraction forgotten.
change_percent_ratio(last, prev) == RoundHalfEven(last * 1000000, prev)

\* round(((last_price - prev_close) / prev_close) * 100, 4), in units of 1e-4.
change_percent(last, prev) == RoundHalfEven((last - prev) * 1000000, prev)

\* symbol used as given, .upper() forgotten.
upper_forgotten(s) == s

\* symbol.upper()
symbol_upper(s) == upper(s)

_build_response(sym, outcome) ==
    LET usym == symbol_upper(sym)
        f    == _fetch_quote(usym, outcome)
    IN  IF f.raised THEN f
        ELSE IF f.value.prev_close = 0
        THEN Raise("ZeroDivisionError", "float division by zero")
        ELSE Return([symbol           |-> Str(usym),
                     last_price       |-> Round4(f.value.last_close),
                     previous_close   |-> Round4(f.value.prev_close),
                     change_percent   |->
                         change_percent(f.value.last_close, f.value.prev_close),
                     volume           |-> IntOf(f.value.volume),
                     volume_formatted |-> _format_volume(f.value.volume)])

\* The try/except of get_quote: data is what _build_response returned or raised.
respond(data) ==
    IF ~data.raised THEN [status |-> 200, body |-> data.value]
    ELSE IF IsValueError(data.exc)
    THEN [status |-> 404, body |-> [error |-> data.msg]]
    ELSE [status |-> 502,
          body   |-> [error   |-> "Failed to reach Yahoo Finance",
                      details |-> data.msg]]

\* A module-level record of the last upstream failure, replayed to later
\* requests: the shared state the handler does not have.
get_quote_sticky_failure(sym, outcome) ==
    IF \E q \in Requests : resp[q].status = 502
    THEN resp[CHOOSE q \in Requests : resp[q].status = 502]
    ELSE respond(_build_response(sym, outcome))

get_quote(sym, outcome) == respond(_build_response(sym, outcome))

\* ------------------------------------------------------------------- state

NoAnswer == [kind |-> "none", bars |-> <<>>, exc |-> ""]

NoResponse == [status |-> 0, body |-> [pending |-> TRUE]]

Init ==
    /\ pc = [r \in Requests |-> "idle"]
    /\ symbol = [r \in Requests |-> <<>>]
    /\ queried = [r \in Requests |-> <<>>]
    /\ calls = [r \in Requests |-> 0]
    /\ answer = [r \in Requests |-> NoAnswer]
    /\ resp = [r \in Requests |-> NoResponse]

\* GET /api/quote/<symbol> arrives; the handler uppercases the symbol and
\* blocks in ticker.history(period='2d').
GetQuote(r, syms) ==
    /\ pc[r] = "idle"
    /\ \E s \in syms :
          /\ symbol' = [symbol EXCEPT ![r] = s]
          /\ queried' = [queried EXCEPT ![r] = symbol_upper(s)]
    /\ calls' = [calls EXCEPT ![r] = @ + 1]
    /\ pc' = [pc EXCEPT ![r] = "history"]
    /\ UNCHANGED <<answer, resp>>

\* The provider call returns bars; the handler runs to its response.
HistoryReturns(r, hists) ==
    /\ pc[r] = "history"
    /\ \E h \in hists :
          LET outcome == [kind |-> "hist", bars |-> h, exc |-> ""]
          IN  /\ answer' = [answer EXCEPT ![r] = outcome]
              /\ resp' = [resp EXCEPT ![r] = get_quote(symbol[r], outcome)]
    /\ pc' = [pc EXCEPT ![r] = "done"]
    /\ UNCHANGED <<symbol, queried, calls>>

\* The provider call raises; the handler maps the exception to a response.
HistoryRaises(r) ==
    /\ pc[r] = "history"
    /\ \E e \in ProviderExceptions :
          LET outcome == [kind |-> "raise", bars |-> <<>>, exc |-> e]
          IN  /\ answer' = [answer EXCEPT ![r] = outcome]
              /\ resp' = [resp EXCEPT ![r] = get_quote(symbol[r], outcome)]
    /\ pc' = [pc EXCEPT ![r] = "done"]
    /\ UNCHANGED <<symbol, queried, calls>>

\* Concurrent requests, any interleaving.
Next ==
    \E r \in Requests :
        \/ GetQuote(r, ConcurrentSymbols)
        \/ HistoryReturns(r, SmallHists)
        \/ HistoryRaises(r)

Spec == Init /\ [][Next]_vars

\* The handler's own steps are scheduled; nothing makes the provider answer.
FairSpec == Spec /\ WF_vars(\E r \in Requests : GetQuote(r, ConcurrentSymbols))

\* One request over the full range of provider results.
NextQuote ==
    \/ GetQuote(1, Symbols)
    \/ HistoryReturns(1, QuoteHists)
    \/ HistoryRaises(1)

SpecQuote == Init /\ [][NextQuote]_vars

\* ------------------------------------------------------------------ claims

Done(r) == pc[r] = "done"

\* The provider returned bars (possibly none) to request r.
GotHist(r) == Done(r) /\ answer[r].kind = "hist"

GotBars(r, n) == GotHist(r) /\ Len(answer[r].bars) = n

LastBar(r) == answer[r].bars[Len(answer[r].bars)]

\* The previous close as the claims resolve it: the close of the bar before
\* the last when there are two bars, the last close when there is one.
ResolvedPrev(r) ==
    IF Len(answer[r].bars) > 1
    THEN answer[r].bars[Len(answer[r].bars) - 1].close
    ELSE LastBar(r).close

\* C1: whenever the provider call raises, whatever the exception, the
\* response is 502 with a body of 'error' and 'details', never 404 or 200.
C1_ProviderFailureIs502 ==
    \A r \in Requests :
        (Done(r) /\ answer[r].kind = "raise") =>
            /\ resp[r].status = 502
            /\ DOMAIN resp[r].body = {"error", "details"}

\* C2: every request that has called the provider eventually gets its
\* response, also when the provider never answers.
C2_EveryRequestAnswered ==
    \A r \in Requests : (pc[r] = "history") ~> (pc[r] = "done")

\* C3: a provider result of zero bars gives 404 with a body of 'error' alone,
\* after exactly one provider call.
C3_EmptyResultIs404 ==
    \A r \in Requests :
        GotBars(r, 0) =>
            /\ resp[r].status = 404
            /\ DOMAIN resp[r].body = {"error"}
            /\ calls[r] = 1

C3_Witness ==
    \E r \in Requests : GotBars(r, 0) /\ resp[r].status = 404

\* C4: a resolved previous close of zero gives 404 and no division happens;
\* every 200 response is built from a nonzero previous close.
C4_ZeroPreviousCloseIs404 ==
    \A r \in Requests :
        (GotHist(r) /\ Len(answer[r].bars) > 0) =>
            /\ ResolvedPrev(r) = 0 =>
                  /\ resp[r].status = 404
                  /\ DOMAIN resp[r].body = {"error"}
            /\ resp[r].status = 200 =>
                  /\ ResolvedPrev(r) # 0
                  /\ resp[r].body.previous_close # 0

C4_Witness ==
    \E r \in Requests :
        /\ GotBars(r, 2)
        /\ ResolvedPrev(r) = 0
        /\ LastBar(r).close # 0
        /\ resp[r].status = 404

\* C5 as stated: a last-bar volume of 1,000,000 is formatted "1.00M" and one
\* of 999,999 is formatted "999999".
C5_BoundaryAsStated ==
    \A r \in Requests :
        (GotHist(r) /\ resp[r].status = 200) =>
            /\ LastBar(r).volume = Vol(1, 1000, 0, 0) =>
                  resp[r].body.volume_formatted = "1.00M"
            /\ LastBar(r).volume = Vol(1, 999, 999, 0) =>
                  resp[r].body.volume_formatted = "999999"

\* C5 amended: a last-bar volume of 1,000,000 is formatted "1.00M" and one of
\* 999,999 is formatted "1000.00K" (999 is the largest value shown bare).
C5_Boundary ==
    \A r \in Requests :
        (GotHist(r) /\ resp[r].status = 200) =>
            /\ LastBar(r).volume = Vol(1, 1000, 0, 0) =>
                  resp[r].body.volume_formatted = "1.00M"
            /\ LastBar(r).volume = Vol(1, 999, 999, 0) =>
                  resp[r].body.volume_formatted = "1000.00K"
            /\ LastBar(r).volume = Vol(1, 0, 999, 0) =>
                  resp[r].body.volume_formatted = "999"

C5_Witness ==
    \E r \in Requests :
        /\ GotHist(r)
        /\ resp[r].status = 200
        /\ LastBar(r).volume = Vol(1, 999, 999, 0)
        /\ resp[r].body.volume_formatted = "1000.00K"

\* h hundredths is a nearest two-decimal value of |v| / (100 * T).
NearestHundredths(h, v, T) ==
    \/ h = DivMod(v, T).q /\ 2 * DivMod(v, T).rem + v.half <= T
    \/ h = DivMod(v, T).q + 1 /\ 2 * DivMod(v, T).rem + v.half >= T

\* text is v over 100 * T with two decimals, followed by suffix.
Suffixed(text, v, T, suffix) ==
    \E h \in {DivMod(v, T).q, DivMod(v, T).q + 1} :
        /\ NearestHundredths(h, v, T)
        /\ text = Fixed2(v.sign, h) \o suffix

\* C6: volume_formatted of a 200 response is the last bar's volume v in the
\* form the thresholds pick: v/1e9 with two decimals and 'B' from 1e9 up,
\* v/1e6 and 'M' from 1e6, v/1e3 and 'K' from 1e3, below that the truncated
\* integer; 500 -> "500", 1500 -> "1.50K", 2,500,000 -> "2.50M",
\* 3,000,000,000 -> "3.00B".
C6_VolumeFormatted ==
    \A r \in Requests :
        (GotHist(r) /\ resp[r].status = 200) =>
            LET v    == LastBar(r).volume
                text == resp[r].body.volume_formatted
            IN  /\ v.kilo >= 1000000 => Suffixed(text, v, 10000000, "B")
                /\ (v.kilo >= 1000 /\ v.kilo < 1000000) =>
                      Suffixed(text, v, 10000, "M")
                /\ (v.kilo >= 1 /\ v.kilo < 1000) => Suffixed(text, v, 10, "K")
                /\ v.kilo = 0 =>
                      text = (IF v.sign < 0 /\ v.unit > 0 THEN "-" ELSE "")
                                 \o ToString(v.unit)
                /\ v = Vol(1, 0, 500, 0) => text = "500"
                /\ v = Vol(1, 1, 500, 0) => text = "1.50K"
                /\ v = Vol(1, 2500, 0, 0) => text = "2.50M"
                /\ v = Vol(1, 3000000, 0, 0) => text = "3.00B"
                /\ v = Vol(-1, 0, 999, 1) => text = "-999"
                /\ v = Vol(1, 1, 15, 0) => text = "1.01K"
                /\ v = Vol(1, 1, 135, 0) => text = "1.14K"

C6_Witness ==
    \E r \in Requests :
        /\ GotBars(r, 2)
        /\ resp[r].status = 200
        /\ LastBar(r).volume = Vol(1, 3000000, 0, 0)
        /\ answer[r].bars[1].volume # LastBar(r).volume
        /\ resp[r].body.volume_formatted = "3.00B"

\* C7: a provider result of exactly one bar gives a quote whose
\* previous_close equals its last_price and whose change_percent is 0.
C7_SingleBar ==
    \A r \in Requests :
        (GotBars(r, 1) /\ resp[r].status = 200) =>
            /\ resp[r].body.previous_close = resp[r].body.last_price
            /\ resp[r].body.last_price = LastBar(r).close
            /\ resp[r].body.change_percent = 0

C7_Witness ==
    \E r \in Requests :
        GotBars(r, 1) /\ resp[r].status = 200 /\ resp[r].body.last_price = MaxClose

\* C8: for two bars with nonzero previous close prev (the older bar) and
\* last close last (the newer bar), change_percent of the 200 response is
\* (last - prev) / prev * 100 rounded to 4 decimals: the multiple of 1e-4
\* nearest to it.
C8_ChangePercent ==
    \A r \in Requests :
        (GotBars(r, 2) /\ answer[r].bars[1].close # 0) =>
            LET prev == answer[r].bars[1].close
                last == answer[r].bars[2].close
                err  == resp[r].body.change_percent * prev - (last - prev) * 1000000
            IN  /\ resp[r].status = 200
                /\ 2 * err <= prev
                /\ -2 * err <= prev

C8_Witness ==
    \E r \in Requests :
        /\ GotBars(r, 2)
        /\ answer[r].bars[1].close = 3
        /\ answer[r].bars[2].close = 1
        /\ resp[r].body.change_percent = -666667

\* Two characters that differ at most in case.
SameLetter(c, d) == c = d \/ {c, d} \in {{"a", "A"}, {"b", "B"}}

\* C9: whatever the casing of the path symbol, the provider is queried with
\* the uppercased symbol and a 200 response carries that symbol.
C9_SymbolUppercased ==
    \A r \in Requests :
        /\ pc[r] # "idle" =>
              /\ Len(queried[r]) = Len(symbol[r])
              /\ \A i \in 1..Len(symbol[r]) :
                    /\ queried[r][i] \notin Lower
                    /\ SameLetter(queried[r][i], symbol[r][i])
        /\ (Done(r) /\ resp[r].status = 200) =>
              /\ resp[r].body.symbol = Str(queried[r])
              /\ symbol[r] = <<"a", "b">> => resp[r].body.symbol = "AB"
              /\ symbol[r] = <<"A", "b", "1">> => resp[r].body.symbol = "AB1"

C9_Witness ==
    \E r \in Requests :
        /\ Done(r)
        /\ symbol[r] = <<"a", "b">>
        /\ resp[r].status = 200
        /\ resp[r].body.symbol = "AB"

====
